---- MODULE Spec2Model ----
(***************************************************************************)
(* A model of build.js, the compiler of the MD-Blog static site generator. *)
(* JavaScript strings are TLA+ strings; a character is a string of length  *)
(* one, read with Ch.  Regular expressions are modelled by operators that  *)
(* decide the same matches as the JavaScript regexp engine.                *)
(***************************************************************************)
EXTENDS Integers, Sequences, FiniteSets, TLC

VARIABLES
    pc,           \* position of build(): "compile", "index", "pages", "done", "failed"
    files,        \* the .md files of config.src, in directory order
    disk,         \* what each of these files holds
    posts,        \* the posts array
    searchIndex,  \* the searchIndex array (empty before it is built)
    written,      \* the files written to config.dist, in order of writing
    stderr,       \* what console.error has printed
    exit,         \* how the process ended (NoValue while it runs)
    tocs,         \* the toc arrays allocated by the calls of processMarkdown
    markedRenderer, \* the renderer in marked's options, known by the toc array
                  \* its closures hold (0: none installed yet)
    bqArg,        \* argument handed to renderer.blockquote
    bqOut,        \* what renderer.blockquote returned (NoValue before the call)
    fnArg,        \* argument of the helper under study (snippet, getReadingTime, ...)
    fnOut         \* its result (NoValue before the call)

vars == <<pc, files, disk, posts, searchIndex, written, stderr, exit, tocs, markedRenderer,
          bqArg, bqOut, fnArg, fnOut>>

buildVars == <<pc, files, disk, posts, searchIndex, written, stderr, exit>>
mdVars    == <<tocs, markedRenderer>>
bqVars    == <<bqArg, bqOut>>
fnVars    == <<fnArg, fnOut>>

NoValue == [kind |-> "none"]

\* the variables of a part of the program that a specification leaves out
BuildIdle ==
    /\ pc = "idle"
    /\ files = <<>>
    /\ disk = <<>>
    /\ posts = <<>>
    /\ searchIndex = <<>>
    /\ written = <<>>
    /\ stderr = <<>>
    /\ exit = NoValue

MdIdle == tocs = <<>> /\ markedRenderer = 0

BqIdle == bqArg = NoValue /\ bqOut = NoValue

FnIdle == fnArg = NoValue /\ fnOut = NoValue

-----------------------------------------------------------------------------
(* JavaScript values handed to the renderer functions.  An object is a     *)
(* record of kind "object" with its own properties next to the kind.       *)

Undefined == [kind |-> "undefined"]

Null == [kind |-> "null"]

Str(s) == [kind |-> "string", value |-> s]

Num(n) == [kind |-> "number", value |-> n]

\* the array of the elements given
Array(elements) == [kind |-> "array", elements |-> elements]

\* what a call that throws comes to
Threw(error) == [kind |-> "threw", error |-> error]

-----------------------------------------------------------------------------
(* String helpers *)

Ch(s, i) == SubSeq(s, i, i)

\* s.startsWith(p, i - 1): p occurs in s at the 1-based position i
OccursAt(s, p, i) ==
    /\ i >= 1
    /\ i + Len(p) - 1 <= Len(s)
    /\ SubSeq(s, i, i + Len(p) - 1) = p

\* s.includes(p)
Includes(s, p) == \E i \in 1..(Len(s) + 1) : OccursAt(s, p, i)

\* s.substring(i - 1): the suffix of s that starts at the 1-based position i
From(s, i) == IF i > Len(s) THEN "" ELSE SubSeq(s, i, Len(s))

\* s.repeat(n)
RECURSIVE Rep(_, _)
Rep(s, n) ==
    IF n = 0 THEN ""
    ELSE IF n = 1 THEN s
    ELSE Rep(s, n \div 2) \o Rep(s, n - (n \div 2))

\* a text of 296 characters that ends inside a word
LongText == Rep("lorem ", 49) \o "ip"

\* the regexp class \s, which is also the white space trim and the
\* conversion of a text to a number drop: space, tab, line feed, carriage
\* return, form feed, the vertical tab U+000B, the no-break space U+00A0,
\* U+1680 and U+FEFF.  The other characters of the class (U+2000 to
\* U+200A, U+2028, U+2029, U+202F, U+205F, U+3000) cannot be written in a
\* text of the model.
IsSpace(c) == c \in {" ", "\t", "\n", "\r", "\f", "", " ", " ", "﻿"}

\* the characters the regexp atom . does not match
IsLineTerminator(c) == c \in {"\n", "\r"}

\* String.prototype.toLowerCase on the letters the model draws from
LowerChar(c) ==
    CASE c = "A" -> "a" [] c = "B" -> "b" [] c = "C" -> "c" [] c = "D" -> "d"
      [] c = "E" -> "e" [] c = "F" -> "f" [] c = "G" -> "g" [] c = "H" -> "h"
      [] c = "I" -> "i" [] c = "J" -> "j" [] c = "K" -> "k" [] c = "L" -> "l"
      [] c = "M" -> "m" [] c = "N" -> "n" [] c = "O" -> "o" [] c = "P" -> "p"
      [] c = "Q" -> "q" [] c = "R" -> "r" [] c = "S" -> "s" [] c = "T" -> "t"
      [] c = "U" -> "u" [] c = "V" -> "v" [] c = "W" -> "w" [] c = "X" -> "x"
      [] c = "Y" -> "y" [] c = "Z" -> "z" [] OTHER -> c

RECURSIVE toLowerCase(_)
toLowerCase(s) ==
    IF s = "" THEN "" ELSE LowerChar(Ch(s, 1)) \o toLowerCase(From(s, 2))

-----------------------------------------------------------------------------
(* renderer.blockquote *)

\* the alternation (NOTE|TIP|IMPORTANT|WARNING|CAUTION) of the detection regexp
AlertTokens == {"NOTE", "TIP", "IMPORTANT", "WARNING", "CAUTION"}

\* const contentStr = (typeof arguments[0] === 'string') ? arguments[0]
\*                                                        : (arguments[0].text || '')
\* (a number, an array and an object without text have no text: '' is taken)
contentStrOf(arg) ==
    IF arg.kind = "string" THEN arg.value
    ELSE IF "text" \in DOMAIN arg THEN arg.text ELSE ""

\* Binding the parameter pattern {text} to null throws, and so does reading
\* arguments[0].text when arguments[0] is undefined.
blockquoteThrows(arg) == arg.kind \in {"null", "undefined"}

\* /^<p>\[!(.*?)\]\s*(.*?)<\/p>([\s\S]*)/ matches s: any type between the
\* brackets, whatever the token asked for
AlertMatchesAnyType(s, tok) ==
    /\ OccursAt(s, "<p>[!", 1)
    /\ \E j \in 6..Len(s) :
          /\ Ch(s, j) = "]"
          /\ \A m \in 6..(j - 1) : ~IsLineTerminator(Ch(s, m))
          /\ \E e \in (j + 1)..Len(s) :
                /\ OccursAt(s, "</p>", e)
                /\ \A m \in (j + 1)..(e - 1) : ~IsLineTerminator(Ch(s, m))

\* /^<p>\[!(NOTE|TIP|IMPORTANT|WARNING|CAUTION)\]\s*(.*?)<\/p>([\s\S]*)/ matches s
\* with capture group 1 = tok: after the "]" comes a run of white space, then
\* characters other than line terminators, then "</p>".
AlertMatchesWith(s, tok) ==
    LET head == "<p>[!" \o tok \o "]"
        i    == Len(head) + 1
    IN  /\ OccursAt(s, head, 1)
        /\ \E j \in i..Len(s) :
              /\ OccursAt(s, "</p>", j)
              /\ \E k \in i..j :
                    /\ \A m \in i..(k - 1) : IsSpace(Ch(s, m))
                    /\ \A m \in k..(j - 1) : ~IsLineTerminator(Ch(s, m))

\* contentStr.match(...): capture group 1, or NoValue when there is no match
alertMatch(s) ==
    IF \E tok \in AlertTokens : AlertMatchesWith(s, tok)
    THEN [kind |-> "match", g1 |-> CHOOSE tok \in AlertTokens : AlertMatchesWith(s, tok)]
    ELSE NoValue

\* /^<p>\[!.*?\]\s*<\/p>/ matches s with the lazy .*? ending right before the
\* "]" at position j; the white space after it runs up to the "</p>" at e
FirstLineEndsAt(s, j, e) ==
    /\ OccursAt(s, "<p>[!", 1)
    /\ j >= 6
    /\ j <= Len(s)
    /\ Ch(s, j) = "]"
    /\ \A m \in 6..(j - 1) : ~IsLineTerminator(Ch(s, m))
    /\ e > j
    /\ \A m \in (j + 1)..(e - 1) : IsSpace(Ch(s, m))
    /\ OccursAt(s, "</p>", e)

\* contentStr.replace(/^<p>\[!.*?\]\s*<\/p>/, ''): the first match in the
\* engine's order (shortest .*?) is cut out; without a match s is returned
removeFirstLine(s) ==
    LET Js == {j \in 6..Len(s) : \E e \in (j + 1)..Len(s) : FirstLineEndsAt(s, j, e)}
    IN  IF Js = {} THEN s
        ELSE LET j == CHOOSE a \in Js : \A b \in Js : a <= b
                 e == CHOOSE c \in (j + 1)..Len(s) : FirstLineEndsAt(s, j, c)
             IN  From(s, e + 4)

\* the keys of the icons and colors tables
AlertTypes == {"note", "tip", "important", "warning", "caution"}

\* the names every object inherits a member for from Object.prototype
ObjectPrototypeMembers ==
    {"constructor", "toString", "toLocaleString", "valueOf", "hasOwnProperty",
     "isPrototypeOf", "propertyIsEnumerable", "__proto__", "__defineGetter__",
     "__defineSetter__", "__lookupGetter__", "__lookupSetter__"}

\* icons[type] || icons.note and colors[type] || colors.note: the key of
\* the table whose entry is taken.  The property is read through the
\* prototype chain, so a name of Object.prototype yields the inherited
\* member, which is truthy and no entry of the table.
lookupStyle(type) ==
    IF type \in AlertTypes THEN type
    ELSE IF type \in ObjectPrototypeMembers THEN "Object.prototype." \o type
    ELSE "note"

\* The value returned by renderer.blockquote called with arg as its first
\* argument (undefined when it is called without one).  A callout is the template of
\* lines 84-92 with its interpolated parts kept as fields; a plain blockquote
\* is `<blockquote>${contentStr}</blockquote>`.
blockquote(arg) ==
    LET contentStr == contentStrOf(arg)
        m          == alertMatch(contentStr)
    IN  IF blockquoteThrows(arg) THEN Threw("TypeError")
        ELSE IF m.kind = "match"
        THEN [kind  |-> "callout",
              type  |-> toLowerCase(m.g1),
              title |-> m.g1,
              style |-> lookupStyle(toLowerCase(m.g1)),
              body  |-> removeFirstLine(contentStr)]
        ELSE [kind |-> "blockquote",
              html |-> "<blockquote>" \o contentStr \o "</blockquote>"]

-----------------------------------------------------------------------------
(* getReadingTime *)

\* const wordsPerMinute = 200
wordsPerMinute == 200

\* String.prototype.trim: s without its leading and trailing white space
trim(s) ==
    LET Ns == {i \in 1..Len(s) : ~IsSpace(Ch(s, i))}
    IN  IF Ns = {} THEN ""
        ELSE SubSeq(s, CHOOSE a \in Ns : \A b \in Ns : a <= b,
                       CHOOSE a \in Ns : \A b \in Ns : a >= b)

\* s.split(/\s+/).length: every maximal run of white space is one separator,
\* and n separators cut s (the empty string too) into n + 1 pieces
splitLength(s) ==
    1 + Cardinality({i \in 1..Len(s) :
                        /\ IsSpace(Ch(s, i))
                        /\ (i = Len(s) \/ ~IsSpace(Ch(s, i + 1)))})

\* Math.floor(a / b) in the place of Math.ceil
floorDiv(a, b) == a \div b

\* Math.ceil(a / b) for integers a >= 0, b > 0
ceilDiv(a, b) == (a + b - 1) \div b

\* function getReadingTime(content)
getReadingTime(content) ==
    LET words == splitLength(trim(content))
    IN  ceilDiv(words, wordsPerMinute)

-----------------------------------------------------------------------------
(* The search snippet: p.htmlContent.replace(/<[^>]*>?/gm, ' ').substring(0, 300) *)

\* the second argument of substring
SnippetLength == 300

\* the smallest element of a non-empty set of integers
Min(S) == CHOOSE a \in S : \A b \in S : a <= b

\* s.replace(/<[^>]*>?/gm, ' '): the leftmost match starts at the first "<",
\* runs over every character that is not ">" and takes the ">" after them if
\* there is one; it is replaced by one space and the search goes on behind it
RECURSIVE stripTags(_)
stripTags(s) ==
    LET Opens == {i \in 1..Len(s) : Ch(s, i) = "<"}
    IN  IF Opens = {} THEN s
        ELSE LET t      == Min(Opens)
                 Closes == {i \in (t + 1)..Len(s) : Ch(s, i) = ">"}
                 next   == IF Closes = {} THEN Len(s) + 1 ELSE Min(Closes) + 1
             IN  SubSeq(s, 1, t - 1) \o " " \o stripTags(From(s, next))

\* s.substring(0, n + 1): the cut one character late
substring0Late(s, n) == IF Len(s) <= n + 1 THEN s ELSE SubSeq(s, 1, n + 1)

\* s.substring(0, n)
substring0(s, n) == IF Len(s) <= n THEN s ELSE SubSeq(s, 1, n)

\* the snippet with the cut applied before the tags are replaced
snippetCutFirst(htmlContent) == stripTags(substring0(htmlContent, SnippetLength))

\* the content of a search record
snippet(htmlContent) == substring0(stripTags(htmlContent), SnippetLength)

-----------------------------------------------------------------------------
(* Arrays *)

\* Array.prototype.sort(comparator), which is stable, with cmp[i][j] the
\* answer of comparator(arr[i], arr[j]): the element at position r of the
\* result is the one that r - 1 elements precede, where arr[j] precedes arr[i]
\* when cmp[j][i] < 0, or when neither is ordered before the other and j < i
sort(arr, cmp) ==
    LET n == Len(arr)
        precedes(j, i) ==
            \/ cmp[j][i] < 0
            \/ (~(cmp[i][j] < 0) /\ j < i)
        rank(i) == 1 + Cardinality({j \in 1..n : j # i /\ precedes(j, i)})
    IN  [r \in 1..n |-> arr[CHOOSE i \in 1..n : rank(i) = r]]

\* The comparator is a consistent one: its answers are antisymmetric and
\* transitive, and so is its "neither before the other".
consistent(cmp) ==
    LET n == Len(cmp)
    IN  \A i, j \in 1..n :
           /\ (cmp[i][j] < 0) <=> (cmp[j][i] > 0)
           /\ \A k \in 1..n :
                 /\ (cmp[i][j] < 0 /\ cmp[j][k] < 0) => cmp[i][k] < 0
                 /\ (cmp[i][j] = 0 /\ cmp[j][k] = 0) => cmp[i][k] = 0

\* the array as it is: the sort left out
sortSkipped(arr, cmp) == {arr}

\* The arrays Array.prototype.sort may leave: the stable sort under a
\* consistent comparator, and an order the implementation picks (any
\* arrangement of the elements) under one that is not.
sortResults(arr, cmp) ==
    IF consistent(cmp) THEN {sort(arr, cmp)}
    ELSE LET n == Len(arr)
         IN  {[r \in 1..n |-> arr[f[r]]] :
                  f \in {g \in [1..n -> 1..n] : \A x, y \in 1..n : x # y => g[x] # g[y]}}

\* slice0 without its end: the whole array
slice0NoEnd(arr, n) == arr

\* Array.prototype.slice(0, n)
slice0(arr, n) == IF Len(arr) <= n THEN arr ELSE SubSeq(arr, 1, n)

\* Array.prototype.includes(x)
includes(arr, x) == \E i \in 1..Len(arr) : arr[i] = x

-----------------------------------------------------------------------------
(* processMarkdown.  marked.parse cuts the body into block tokens and      *)
(* renders each with the renderer; the model starts from the tokens.       *)

\* the regexp class \w
IsWordChar(c) ==
    c \in {"a", "b", "c", "d", "e", "f", "g", "h", "i", "j", "k", "l", "m",
           "n", "o", "p", "q", "r", "s", "t", "u", "v", "w", "x", "y", "z",
           "A", "B", "C", "D", "E", "F", "G", "H", "I", "J", "K", "L", "M",
           "N", "O", "P", "Q", "R", "S", "T", "U", "V", "W", "X", "Y", "Z",
           "0", "1", "2", "3", "4", "5", "6", "7", "8", "9", "_"}

\* s.replace(/[^\w]/g, '-'): every character on its own, the + left out
RECURSIVE replaceNonWordChars(_)
replaceNonWordChars(s) ==
    IF s = "" THEN ""
    ELSE (IF IsWordChar(Ch(s, 1)) THEN Ch(s, 1) ELSE "-") \o replaceNonWordChars(From(s, 2))

\* s.replace(/[^\w]+/g, '-')
RECURSIVE replaceNonWordRuns(_)
replaceNonWordRuns(s) ==
    IF s = "" THEN ""
    ELSE IF IsWordChar(Ch(s, 1)) THEN Ch(s, 1) \o replaceNonWordRuns(From(s, 2))
    ELSE LET Ws == {i \in 2..Len(s) : IsWordChar(Ch(s, i))}
         IN  IF Ws = {} THEN "-"
             ELSE "-" \o replaceNonWordRuns(From(s, Min(Ws)))

Digits == <<"1", "2", "3", "4", "5", "6", "7", "8", "9">>

\* arguments[i - 1], which is undefined behind the last argument
argument(args, i) == IF i <= Len(args) THEN args[i] ELSE Undefined

\* ToBoolean(v)
truthy(v) ==
    CASE v.kind = "string"    -> v.value # ""
      [] v.kind = "number"    -> v.value # 0
      [] v.kind = "undefined" -> FALSE
      [] v.kind = "null"      -> FALSE
      [] OTHER                -> TRUE

\* a || b
or(a, b) == IF truthy(a) THEN a ELSE b

\* `${v}` in a template literal, ToString(v): an array is its elements
\* joined by commas, an element that is null or undefined being empty
RECURSIVE toStr(_)
toStr(v) ==
    CASE v.kind = "string"    -> v.value
      [] v.kind = "number"    -> ToString(v.value)
      [] v.kind = "undefined" -> "undefined"
      [] v.kind = "null"      -> "null"
      [] v.kind = "array"     ->
            IF v.elements = <<>> THEN ""
            ELSE (IF Head(v.elements).kind \in {"null", "undefined"} THEN ""
                  ELSE toStr(Head(v.elements)))
                 \o (IF Len(v.elements) = 1 THEN ""
                     ELSE "," \o toStr(Array(Tail(v.elements))))
      [] OTHER                -> "[object Object]"

\* every character of s is one of digits
AllIn(s, digits) ==
    \A i \in 1..Len(s) : \E j \in 1..Len(digits) : Ch(s, i) = Ch(digits, j)

\* the value of a decimal digit
DigitValue(c) == IF c = "0" THEN 0 ELSE CHOOSE j \in 1..Len(Digits) : Digits[j] = c

\* s without its leading zeros
stripZeros(s) ==
    LET Ns == {i \in 1..Len(s) : Ch(s, i) # "0"}
    IN  IF Ns = {} THEN "" ELSE From(s, Min(Ns))

\* the fraction 0.a is at most the fraction 0.b, a and b digits
fractionAtMost(a, b) ==
    LET n  == IF Len(a) >= Len(b) THEN Len(a) ELSE Len(b)
        pa == a \o Rep("0", n - Len(a))
        pb == b \o Rep("0", n - Len(b))
        Ds == {i \in 1..n : Ch(pa, i) # Ch(pb, i)}
    IN  Ds = {} \/ DigitValue(Ch(pa, Min(Ds))) < DigitValue(Ch(pb, Min(Ds)))

\* the digits of 2^-52 behind the point.  A decimal up to limit + 2^-52,
\* limit being 2 or 3, is read as the double limit (round to nearest, ties
\* to even), a greater one as a greater double.
HalfUlp == Rep("0", 15) \o "2220446049250313080847263336181640625"

\* the number a text of digits is.  A number of more than nine digits is
\* taken as 10^9: it is the exponent of a literal, and is added to lengths
\* of texts, which are below 10^9, so the literal is 0 or infinite either way.
RECURSIVE digitsValue(_)
digitsValue(ds) ==
    IF ds = "" THEN 0
    ELSE IF Len(stripZeros(ds)) > 9 THEN 1000000000
    ELSE 10 * digitsValue(SubSeq(ds, 1, Len(ds) - 1)) + DigitValue(Ch(ds, Len(ds)))

\* the place of the first of the characters cs in u, behind u if none
firstOf(u, cs) ==
    Min({i \in 1..Len(u) : Ch(u, i) \in cs} \cup {Len(u) + 1})

\* the parts of a StrUnsignedDecimalLiteral u: the mantissa in front of
\* the e, its digits in front of and behind the point, the exponent part
\* behind the e, its sign and its digits
mantissaOf(u) == SubSeq(u, 1, firstOf(u, {"e", "E"}) - 1)

intPartOf(u) == SubSeq(mantissaOf(u), 1, firstOf(mantissaOf(u), {"."}) - 1)

fracPartOf(u) == From(mantissaOf(u), firstOf(mantissaOf(u), {"."}) + 1)

expPartOf(u) == From(u, firstOf(u, {"e", "E"}) + 1)

expDigitsOf(u) ==
    IF expPartOf(u) # "" /\ Ch(expPartOf(u), 1) \in {"+", "-"}
    THEN From(expPartOf(u), 2) ELSE expPartOf(u)

\* u is a StrUnsignedDecimalLiteral: digits with at most one point among
\* them, and digits behind an e
isDecimalLiteral(u) ==
    /\ AllIn(intPartOf(u), "0123456789")
    /\ AllIn(fracPartOf(u), "0123456789")
    /\ intPartOf(u) \o fracPartOf(u) # ""
    /\ AllIn(expDigitsOf(u), "0123456789")
    /\ (firstOf(u, {"e", "E"}) <= Len(u) => expDigitsOf(u) # "")

\* the digits of the literal u from its first that is not 0
significantDigits(u) == stripZeros(intPartOf(u) \o fracPartOf(u))

\* the value of the literal u is 0.significantDigits(u) * 10^placesOf(u)
placesOf(u) ==
    Len(significantDigits(u)) - Len(fracPartOf(u))
        + (IF expPartOf(u) # "" /\ Ch(expPartOf(u), 1) = "-"
           THEN 0 - digitsValue(expDigitsOf(u))
           ELSE digitsValue(expDigitsOf(u)))

\* ToNumber(u) <= limit for a text u without a sign; what is no decimal
\* literal is NaN.  limit is the digit 2 or 3.
unsignedAtMost(u, limit) ==
    /\ isDecimalLiteral(u)
    /\ \/ significantDigits(u) = ""
       \/ placesOf(u) <= 0
       \/ /\ placesOf(u) = 1
          /\ \/ DigitValue(Ch(significantDigits(u), 1)) < DigitValue(limit)
             \/ /\ Ch(significantDigits(u), 1) = limit
                /\ fractionAtMost(From(significantDigits(u), 2), HalfUlp)

\* the digits of a literal of radix 16, 8 or 2 whose value is at most limit
radixAtMost(ds, radix, limit) ==
    LET allowed == CASE radix = "x" -> "0123456789abcdefABCDEF"
                     [] radix = "o" -> "01234567"
                     [] radix = "b" -> "01"
        value   == stripZeros(ds)
    IN  /\ ds # ""
        /\ AllIn(ds, allowed)
        /\ IF radix = "b"
           THEN value \in {"", "1", "10"} \cup (IF limit = "3" THEN {"11"} ELSE {})
           ELSE value \in {"", "1", "2"} \cup (IF limit = "3" THEN {"3"} ELSE {})

\* ToNumber(s) <= limit for a text s (StringToNumber): white space around
\* it is dropped, the empty text is 0, a literal of radix 16, 8 or 2 has no
\* sign, and what is no numeric literal is NaN, which compares false
textAtMost(s, limit) ==
    LET t == trim(s)
    IN  CASE t = ""                          -> TRUE
          [] t \in {"Infinity", "+Infinity"} -> FALSE
          [] t = "-Infinity"                 -> TRUE
          [] Len(t) >= 2 /\ SubSeq(t, 1, 2) \in {"0x", "0X", "0o", "0O", "0b", "0B"} ->
                radixAtMost(From(t, 3), toLowerCase(Ch(t, 2)), limit)
          [] Ch(t, 1) = "-"                  ->
                \* a negative number, or -0
                isDecimalLiteral(From(t, 2))
          [] Ch(t, 1) = "+"                  -> unsignedAtMost(From(t, 2), limit)
          [] OTHER                           -> unsignedAtMost(t, limit)

\* the limit one lower: headerLevel <= 2 in the place of headerLevel <= 3
levelBelow3(v) ==
    CASE v.kind = "number" -> v.value < 3
      [] v.kind = "string" -> textAtMost(v.value, "2")
      [] v.kind = "array"  -> textAtMost(toStr(v), "2")
      [] v.kind = "null"   -> TRUE
      [] OTHER             -> FALSE

\* headerLevel <= 3: a text is converted to the number it reads as, an
\* array to the number its text reads as, null counts as 0, and undefined
\* and an object count as NaN, which compares false
levelAtMost3(v) ==
    CASE v.kind = "number" -> v.value <= 3
      [] v.kind = "string" -> textAtMost(v.value, "3")
      [] v.kind = "array"  -> textAtMost(toStr(v), "3")
      [] v.kind = "null"   -> TRUE
      [] OTHER             -> FALSE

\* typeof arguments[0] === 'object' && arguments[0] !== null && !Array.isArray(arguments[0])
isPlainObject(v) == v.kind = "object"

\* obj.text || ''
textOf(obj) == IF "text" \in DOMAIN obj THEN obj.text ELSE ""

\* obj.depth || obj.level || 1
levelOf(obj) ==
    IF "depth" \in DOMAIN obj /\ obj.depth # 0 THEN obj.depth
    ELSE IF "level" \in DOMAIN obj /\ obj.level # 0 THEN obj.level
    ELSE 1

\* obj.raw || headerText
rawOf(obj) == IF "raw" \in DOMAIN obj /\ obj.raw # "" THEN obj.raw ELSE textOf(obj)

\* renderer.heading called with the arguments args.  Binding the parameter
\* pattern {text, depth, raw} to null throws; so does toLowerCase on what is
\* no string.  Otherwise the call returns the element and pushes at most one
\* entry to the toc its closure holds.
heading(args) ==
    LET a0 == argument(args, 1)
    IN  IF a0.kind = "null" THEN Threw("TypeError")
        ELSE LET headerText  == IF isPlainObject(a0) THEN Str(textOf(a0)) ELSE a0
                 headerLevel == IF isPlainObject(a0) THEN Num(levelOf(a0))
                                ELSE argument(args, 2)
                 headerRaw   == IF isPlainObject(a0) THEN Str(rawOf(a0))
                                ELSE argument(args, 3)
                 basis       == or(or(headerRaw, headerText), Str(""))
             IN  IF basis.kind # "string" THEN Threw("TypeError")
                 ELSE LET anchor == replaceNonWordRuns(toLowerCase(basis.value))
                          h      == "h" \o toStr(headerLevel)
                      IN  [kind    |-> "returned",
                           entries |-> IF levelAtMost3(headerLevel)
                                       THEN <<[anchor |-> anchor, text |-> headerText,
                                               level |-> headerLevel]>>
                                       ELSE <<>>,
                           html    |-> "<" \o h \o " id=\"" \o anchor \o "\">"
                                           \o toStr(headerText) \o "</" \o h \o ">"]

\* what the renderer returns for one block token: a heading token goes to
\* renderer.heading as its one argument, a paragraph and a block of raw HTML
\* through marked's own renderer
renderToken(token) ==
    CASE token.type = "heading"   -> heading(<<token>>)
      [] token.type = "paragraph" -> [entries |-> <<>>, html |-> "<p>" \o token.text \o "</p>\n"]
      [] token.type = "html"      -> [entries |-> <<>>, html |-> token.text]

\* marked.parse(content) with a heading renderer that puts its entry in
\* front of the toc (unshift) instead of behind it
RECURSIVE parseUnshifting(_)
parseUnshifting(tokens) ==
    IF tokens = <<>> THEN [entries |-> <<>>, html |-> ""]
    ELSE LET first == renderToken(Head(tokens))
             rest  == parseUnshifting(Tail(tokens))
         IN  [entries |-> rest.entries \o first.entries,
              html    |-> first.html \o rest.html]

\* marked.parse(content): the entries the heading renderer pushes and the
\* HTML of the tokens, in document order
RECURSIVE parse(_)
parse(tokens) ==
    IF tokens = <<>> THEN [entries |-> <<>>, html |-> ""]
    ELSE LET first == renderToken(Head(tokens))
             rest  == parse(Tail(tokens))
         IN  [entries |-> first.entries \o rest.entries,
              html    |-> first.html \o rest.html]

\* marked.setOptions that keeps a renderer once one is installed
setOptionsKeepingFirst(installed, renderer) ==
    IF installed = 0 THEN renderer ELSE installed

\* marked.setOptions({renderer, ...}): the renderer of marked's options is
\* replaced; a renderer is known by the toc array its closures hold
setOptions(installed, renderer) == renderer

\* function processMarkdown(content), run on the toc arrays allocated so far
\* and the renderer installed so far: `const toc = []` allocates a new array,
\* the new renderer is installed, and marked.parse pushes to the toc of the
\* installed renderer.  The toc returned is the array allocated by this call.
processMarkdown(tokens, heap, installed) ==
    LET toc      == Len(heap) + 1
        renderer == setOptions(installed, toc)
        parsed   == parse(tokens)
    IN  [tocs        |-> [Append(heap, <<>>) EXCEPT ![renderer] = @ \o parsed.entries],
         renderer    |-> renderer,
         toc         |-> toc,
         htmlContent |-> parsed.html]

-----------------------------------------------------------------------------
(* build *)

\* file.endsWith('.md')
endsWithMd(file) == Len(file) >= 3 /\ SubSeq(file, Len(file) - 2, Len(file)) = ".md"

\* file.replace('.md', ''): the first occurrence of ".md" is cut out
slugOf(file) ==
    LET Os == {i \in 1..Len(file) : OccursAt(file, ".md", i)}
    IN  IF Os = {} THEN file
        ELSE SubSeq(file, 1, Min(Os) - 1) \o From(file, Min(Os) + 3)

\* fs.readdirSync(config.src).filter(file => file.endsWith('.md'))
mdFiles(listing) == SelectSeq(listing, endsWithMd)

\* the keys build() sets after spreading the front matter into the post
ComputedKeys ==
    {"slug", "readingTime", "toc", "htmlContent", "date", "tags", "heroImage"}

\* the time value of new Date(undefined), an invalid date: NaN.  The time
\* values of the model's dates are days, which are never negative.
InvalidDate == -1

\* matter(rawContent) of gray-matter: a file that does not start with the
\* "---" delimiter has no front matter, its data is {} and its content the
\* whole file; front matter that is no YAML makes the parser throw
matter(rawContent) ==
    CASE rawContent.header = "malformed" -> Threw("YAMLException")
      [] rawContent.header = "absent"    ->
            [kind |-> "parsed", data |-> <<>>, content |-> rawContent.body]
      [] OTHER                           ->
            [kind |-> "parsed", data |-> rawContent.data, content |-> rawContent.body]

\* the value of posts.push({...data, slug, readingTime, toc, htmlContent,
\*   date: new Date(data.date), tags: data.tags || [], heroImage: data.heroImage || null})
\* for a file whose front matter is data and whose body is content; toc is
\* the array processMarkdown returned.  The tags are the value of the front
\* matter when it is truthy, whatever it is (a list is truthy also when it is
\* empty, a text that is not empty is truthy and is no list), and a new empty
\* list when it is absent or falsy; a heroImage that is the empty text is
\* falsy.
makePost(file, data, content, toc, htmlContent) ==
    [k \in (DOMAIN data) \cup ComputedKeys |->
        CASE k = "slug"        -> slugOf(file)
          [] k = "readingTime" -> getReadingTime(content)
          [] k = "toc"         -> toc
          [] k = "htmlContent" -> htmlContent
          [] k = "date"        -> IF "date" \in DOMAIN data THEN data.date ELSE InvalidDate
          [] k = "tags"        -> IF "tags" \in DOMAIN data /\ truthy(data.tags)
                                  THEN data.tags ELSE Array(<<>>)
          [] k = "heroImage"   -> IF "heroImage" \in DOMAIN data /\ data.heroImage # ""
                                  THEN data.heroImage ELSE "null"
          [] OTHER             -> data[k]]

\* the difference of two time values; with an invalid date it is NaN, which
\* Array.prototype.sort takes for +0
timeDifference(a, b) ==
    IF a = InvalidDate \/ b = InvalidDate THEN 0 ELSE a - b

\* the comparator with its operands exchanged: oldest first
byDateAscending(a, b) == timeDifference(a.date, b.date)

\* the comparator of posts.sort: (a, b) => b.date - a.date
byDateDescending(a, b) == timeDifference(b.date, a.date)

\* a search record whose content is the rendered HTML as it is
searchRecordWholeHtml(p) ==
    [k \in ((DOMAIN p) \cap {"title", "slug", "description", "tags"}) \cup {"content"} |->
        IF k = "content" THEN p.htmlContent ELSE p[k]]

\* the keys a search record takes from the post; a property of the post that
\* is undefined is written by JSON.stringify as no property at all
CopiedKeys == {"title", "slug", "description", "tags"}

\* p => ({title, slug, description, tags, content: snippet})
searchRecord(p) ==
    [k \in ((DOMAIN p) \cap CopiedKeys) \cup {"content"} |->
        IF k = "content" THEN snippet(p.htmlContent) ELSE p[k]]

\* the number of entries related keeps: slice(0, 3)
RelatedLimit == 3

\* matches: p.tags.filter(tag => post.tags.includes(tag)).length
matches(p, post) ==
    LET shared(tag) == includes(post.tags, tag)
    IN  Len(SelectSeq(p.tags, shared))

\* the comparator with its operands exchanged: fewest matches first
byMatchesAscending(a, b) == a.matches - b.matches

\* the comparator of the related sort: (a, b) => b.matches - a.matches
byMatchesDescending(a, b) == b.matches - a.matches

\* const related = posts.filter(...).map(...).filter(...).sort(...).slice(0, 3).map(x => x.post)
related(corpus, post) ==
    LET other(p)   == p.slug # post.slug
        others     == SelectSeq(corpus, other)
        scored     == [i \in 1..Len(others) |->
                          [post |-> others[i], matches |-> matches(others[i], post)]]
        hit(x)     == x.matches > 0
        candidates == SelectSeq(scored, hit)
        cmp        == [i \in 1..Len(candidates) |-> [j \in 1..Len(candidates) |->
                          byMatchesDescending(candidates[i], candidates[j])]]
        kept       == slice0(sort(candidates, cmp), RelatedLimit)
    IN  [i \in 1..Len(kept) |-> kept[i].post]

-----------------------------------------------------------------------------
(* Blockquote inputs: the rendered inner HTML of a blockquote, assembled   *)
(* from a first paragraph (marker, token, closing bracket, trailing text)  *)
(* and the content that follows it.                                        *)

BqPrefixes == {"", " "}
BqMarkers  == {"[!", "["}
BqTokens   == AlertTokens \cup {"tip", "Note", "INFO"}
BqClosers  == {"]", ""}
BqTrailing == {"", " ", " Remember this", "\nRemember this", " see [x]"}
BqRests    == {"", "<p>More text</p>", "<p>More [text]</p>", "\n<p>More [text]</p>\n"}

BqInputs ==
    {pre \o "<p>" \o mk \o tok \o cl \o tr \o "</p>" \o rest :
        pre \in BqPrefixes, mk \in BqMarkers, tok \in BqTokens,
        cl \in BqClosers, tr \in BqTrailing, rest \in BqRests}

\* the blockquote of a sample post, which is no admonition
BqPlain == "<p>&quot;Animation is about creating the illusion of life.&quot;</p>\n"

\* the first argument: the inner HTML as a string, an object that carries
\* it as its text, and what is neither (no argument at all is undefined)
BqArgs ==
    {[kind |-> "string", value |-> s] : s \in BqInputs \cup {BqPlain}}
      \cup {[kind |-> "object", text |-> s] : s \in BqInputs \cup {BqPlain, ""}}
      \cup {[kind |-> "object"], Undefined, Null, Num(42), Array(<<Str("a")>>)}

InitBq ==
    /\ bqArg \in BqArgs
    /\ bqOut = NoValue
    /\ BuildIdle
    /\ MdIdle
    /\ FnIdle

RenderBlockquote ==
    /\ bqArg # NoValue
    /\ bqOut = NoValue
    /\ bqOut' = blockquote(bqArg)
    /\ UNCHANGED <<bqArg, buildVars, mdVars, fnVars>>

NextBq == RenderBlockquote

SpecBq == InitBq /\ [][NextBq]_vars

-----------------------------------------------------------------------------
(* Claims about renderer.blockquote *)

\* the inner content of a blockquote without its first paragraph: what
\* follows the first "</p>"
WithoutFirstParagraph(s) ==
    LET Ps == {i \in 1..Len(s) : OccursAt(s, "</p>", i)}
    IN  IF Ps = {} THEN s
        ELSE From(s, (CHOOSE a \in Ps : \A b \in Ps : a <= b) + 4)

bqRendered == bqOut.kind \in {"callout", "blockquote"}

bqContent == contentStrOf(bqArg)

\* C1: a blockquote whose first paragraph matches [!TYPE], with or without
\* trailing text, is emitted as a callout titled TYPE whose body is the inner
\* content without that first paragraph, so the marker is not in the body.
C1_FirstParagraphStripped ==
    (bqRendered /\ alertMatch(bqContent).kind = "match") =>
        /\ bqOut.kind = "callout"
        /\ bqOut.title = alertMatch(bqContent).g1
        /\ bqOut.body = WithoutFirstParagraph(bqContent)
        /\ ~OccursAt(bqOut.body, "<p>[!" \o bqOut.title \o "]", 1)

\* C2: detection is case-insensitive: a first paragraph that starts with
\* [! + any casing of one of the five tokens + ] yields a callout whose type
\* is the token lowercased and whose title is the token as written.
C2_CaseInsensitiveDetection ==
    \A tok \in BqTokens :
        (/\ bqRendered
         /\ toLowerCase(tok) \in AlertTypes
         /\ AlertMatchesWith(bqContent, tok)) =>
            /\ bqOut.kind = "callout"
            /\ bqOut.type = toLowerCase(tok)
            /\ bqOut.title = tok

\* the first paragraph of the inner content s carries the admonition marker:
\* it starts with [! + one of the five tokens in any casing + ]
MarksAdmonition(s) ==
    /\ OccursAt(s, "<p>[!", 1)
    /\ \E j \in 6..Len(s) :
          /\ Ch(s, j) = "]"
          /\ toLowerCase(SubSeq(s, 6, j - 1)) \in AlertTypes

\* C13: a blockquote whose first paragraph does not match the [!TYPE]
\* pattern is emitted as a plain blockquote around its inner content as it
\* is: no callout, icon or title, and nothing of the content removed.
C13_PlainBlockquoteUnchanged ==
    (bqRendered /\ ~MarksAdmonition(bqContent)) =>
        bqOut = [kind |-> "blockquote",
                 html |-> "<blockquote>" \o bqContent \o "</blockquote>"]

\* a blockquote that starts with [!INFO], which is none of the five types,
\* and goes on with a second paragraph was emitted with both paragraphs
C13_Witness ==
    /\ bqRendered
    /\ bqContent = "<p>[!INFO]</p><p>More [text]</p>"
    /\ bqOut.kind = "blockquote"
    /\ Includes(bqOut.html, "<p>[!INFO]</p><p>More [text]</p>")

-----------------------------------------------------------------------------
(* One run of build().  The directory holds up to MaxPosts posts next to   *)
(* files that are no posts; what a file holds is read when it is compiled. *)

MaxPosts == 3

FileName(i) == "p" \o Digits[i] \o ".md"

Listing(n) == <<"README.txt", "draft.md.bak">> \o [i \in 1..n |-> FileName(i)]

\* the number of the file in the listing
FileNumber(file) == CHOOSE i \in 1..Len(Digits) : FileName(i) = file

\* the token marked makes of an ATX heading: its depth, its text and its
\* source, and the object renderer.heading is called with
Heading(depth, text) ==
    [kind |-> "object", type |-> "heading", depth |-> depth, text |-> text,
     raw |-> Rep("#", depth) \o " " \o text \o "\n\n"]

Paragraph(text) == [type |-> "paragraph", text |-> text]

RawHtml(text) == [type |-> "html", text |-> text]

\* the bodies of the files: the markdown text and the block tokens marked
\* cuts it into
Docs ==
    << [content |-> "# Hello World!\n\nSome *text*.\n",
        tokens  |-> <<Heading(1, "Hello World!"), Paragraph("Some <em>text</em>.")>>],
       [content |-> "## Long\n\n" \o LongText \o " dolor sit\n\n#### Deep\n\n### Long\n",
        tokens  |-> <<Heading(2, "Long"), Paragraph(LongText \o " dolor sit"),
                      Heading(4, "Deep"), Heading(3, "Long")>>],
       [content |-> "<div class=\"x\">raw</div>\n\n#### Deep\n\nend\n",
        tokens  |-> <<RawHtml("<div class=\"x\">raw</div>\n"), Heading(4, "Deep"),
                      Paragraph("end")>>],
       [content |-> "", tokens |-> <<>>] >>

DocOf(file) == Docs[((FileNumber(file) - 1) % Len(Docs)) + 1]

\* the days of March 2024 the posts are dated
Dates == {10, 12}

BuildTagLists == {<<"js">>, <<"js", "web">>}

\* the front matter of a file: tags and heroImage are optional, and the tags
\* are a YAML sequence of texts, which gray-matter gives as an array
FrontMatter(file, date, tags, hasTags) ==
    LET i == FileNumber(file)
    IN  [k \in {"title", "description", "author", "date"}
                 \cup (IF hasTags THEN {"tags"} ELSE {})
                 \cup (IF i % 2 = 1 THEN {"heroImage"} ELSE {}) |->
            CASE k = "title"       -> "Title " \o Digits[i]
              [] k = "description" -> "About " \o Digits[i]
              [] k = "author"      -> "Antigravity"
              [] k = "date"        -> date
              [] k = "tags"        -> Array([j \in 1..Len(tags) |-> Str(tags[j])])
              [] k = "heroImage"   -> "https://img/" \o Digits[i]]

FrontMatters(file) ==
    {FrontMatter(file, d, t, TRUE) : d \in Dates, t \in BuildTagLists}
      \cup {FrontMatter(file, d, <<>>, FALSE) : d \in Dates}

\* what a file holds: a header of front matter and a body
Source(header, data, body) == [header |-> header, data |-> data, body |-> body]

\* a file as the specification wants it: front matter, then the body
WellFormed(file) ==
    {Source("valid", data, DocOf(file)) : data \in FrontMatters(file)}

\* a file as it may also be: without a header, or with one that is no YAML
AnySource(file) ==
    {Source("valid", FrontMatter(file, d, <<"js">>, TRUE), DocOf(file)) : d \in Dates}
      \cup {Source("absent", <<>>, DocOf(file)), Source("malformed", <<>>, DocOf(file))}

\* what front matter may hold under the names build() computes: a slug that
\* is the name of another page, minutes, an array of its own (the reference
\* 0: none of the arrays processMarkdown allocates) and HTML
MetadataNamedAsComputed ==
    [slug |-> "index", readingTime |-> 99, toc |-> 0,
     htmlContent |-> "<script>x</script>"]

\* front matter that holds these keys beside its own; without tags its
\* heroImage is the empty text
FrontMatterNamedAsComputed(file, date, hasTags) ==
    LET own == FrontMatter(file, date, <<"js", "web">>, hasTags)
    IN  [k \in (DOMAIN own) \cup (DOMAIN MetadataNamedAsComputed)
                 \cup (IF hasTags THEN {} ELSE {"heroImage"}) |->
            IF k \in DOMAIN MetadataNamedAsComputed THEN MetadataNamedAsComputed[k]
            ELSE IF k = "heroImage" /\ ~hasTags THEN ""
            ELSE own[k]]

\* a file whose front matter holds any keys with any values: the keys named
\* as computed fields, and under tags a sequence (tags: [js, web]), a plain
\* text (tags: js) or nothing (tags: with no value, which YAML reads as null)
AnyKeys(file) ==
    {Source("valid", FrontMatterNamedAsComputed(file, d, TRUE), DocOf(file)) : d \in Dates}
      \cup {Source("valid", FrontMatterNamedAsComputed(file, Min(Dates), FALSE), DocOf(file))}
      \cup {Source("valid", [FrontMatter(file, Min(Dates), <<>>, TRUE) EXCEPT !.tags = v],
                    DocOf(file)) : v \in {Str("js"), Null}}

\* the contents of the first n files, each drawn from Sources[i]
RECURSIVE Disks(_, _)
Disks(n, Sources) ==
    IF n = 0 THEN {<<>>}
    ELSE {Append(d, raw) : d \in Disks(n - 1, Sources), raw \in Sources[n]}

\* the state build() starts in, the directory holding n posts
Start(n, Sources) ==
    /\ pc = "compile"
    /\ files = mdFiles(Listing(n))
    /\ disk \in Disks(n, Sources)
    /\ posts = <<>>
    /\ searchIndex = <<>>
    /\ written = <<>>
    /\ stderr = <<>>
    /\ exit = NoValue
    /\ MdIdle
    /\ BqIdle
    /\ FnIdle

Init ==
    \E n \in 0..MaxPosts : Start(n, [i \in 1..n |-> WellFormed(FileName(i))])

InitAnyDisk ==
    \E n \in 0..MaxPosts : Start(n, [i \in 1..n |-> AnySource(FileName(i))])

InitAnyKeys ==
    \E n \in 0..MaxPosts : Start(n, [i \in 1..n |-> AnyKeys(FileName(i))])

\* files.forEach has returned after one turn, whatever the number of files
forEachReturnedEarly == Len(posts) >= 1

\* files.forEach has called back for every file and returned
forEachReturned == Len(posts) = Len(files)

\* one turn of files.forEach: read the file, compile it, push the post.  An
\* exception leaves forEach and build(); the promise of build() is rejected
\* and its catch handler hands the exception to console.error.
CompileFile ==
    /\ pc = "compile"
    /\ Len(posts) < Len(files)
    /\ LET file   == files[Len(posts) + 1]
           parsed == matter(disk[Len(posts) + 1])
       IN  IF parsed.kind = "threw"
           THEN /\ pc' = "failed"
                /\ stderr' = Append(stderr, parsed.error)
                /\ UNCHANGED <<posts, tocs, markedRenderer>>
           ELSE LET rendered == processMarkdown(parsed.content.tokens, tocs, markedRenderer)
                IN  /\ posts' = Append(posts,
                                     makePost(file, parsed.data, parsed.content.content,
                                              rendered.toc, rendered.htmlContent))
                    /\ tocs' = rendered.tocs
                    /\ markedRenderer' = rendered.renderer
                    /\ UNCHANGED <<pc, stderr>>
    /\ UNCHANGED <<files, disk, searchIndex, written, exit, bqVars, fnVars>>

\* posts.sort((a, b) => b.date - a.date), once forEach has returned
SortPosts ==
    /\ pc = "compile"
    /\ forEachReturned
    /\ posts' \in sortResults(posts, [i \in 1..Len(posts) |-> [j \in 1..Len(posts) |->
                                          byDateDescending(posts[i], posts[j])]])
    /\ pc' = "index"
    /\ UNCHANGED <<files, disk, searchIndex, written, stderr, exit, mdVars, bqVars, fnVars>>

\* const searchIndex = posts.map(...); fs.writeFileSync(.../search.json, JSON.stringify(searchIndex))
WriteSearchIndex ==
    /\ pc = "index"
    /\ searchIndex' = [i \in 1..Len(posts) |-> searchRecord(posts[i])]
    /\ written' = Append(written, [path |-> "search.json", content |-> searchIndex'])
    /\ pc' = "pages"
    /\ UNCHANGED <<files, disk, posts, stderr, exit, mdVars, bqVars, fnVars>>

\* the number of post pages written so far
pagesWritten == Len(written) - 1

\* posts.forEach has called back for every post and returned
pagesDone == pagesWritten = Len(posts)

\* one turn of posts.forEach: the related posts of the post, its table of
\* contents and its page.  The turn takes the tags of every post for an
\* array: p.tags.filter(...) of each other post, post.tags.includes(tag) and
\* post.tags.map(...) of the post itself.  When the tags of some post are a
\* value that is no array (a text has no filter and no map) the turn throws
\* a TypeError before it writes the page, be it the post of the turn or
\* another one; the exception leaves forEach and build() as one of
\* CompileFile does.  Otherwise related sees each post with its list of tags.
GeneratePage ==
    /\ pc = "pages"
    /\ pagesWritten < Len(posts)
    /\ LET post      == posts[pagesWritten + 1]
           listed(p) == [p EXCEPT !.tags = @.elements]
       IN  IF \E j \in 1..Len(posts) : posts[j].tags.kind # "array"
           THEN /\ pc' = "failed"
                /\ stderr' = Append(stderr, "TypeError")
                /\ UNCHANGED written
           ELSE /\ written' = Append(written,
                        [path    |-> "posts/" \o post.slug \o ".html",
                         slug    |-> post.slug,
                         related |-> related([j \in 1..Len(posts) |-> listed(posts[j])],
                                             listed(post)),
                         toc     |-> tocs[post.toc]])
                /\ UNCHANGED <<pc, stderr>>
    /\ UNCHANGED <<files, disk, posts, searchIndex, exit, mdVars, bqVars, fnVars>>

\* fs.writeFileSync(.../index.html, finalHomeHtml), once forEach has returned
WriteHome ==
    /\ pc = "pages"
    /\ pagesDone
    /\ written' = Append(written, [path |-> "index.html", listed |-> Len(posts)])
    /\ pc' = "done"
    /\ UNCHANGED <<files, disk, posts, searchIndex, stderr, exit, mdVars, bqVars, fnVars>>

\* The promise of build() is settled and nothing is left to run: the
\* process ends.  Nothing sets process.exitCode, so the status is 0.
Exit ==
    /\ pc \in {"done", "failed"}
    /\ exit = NoValue
    /\ exit' = [kind |-> "exit", code |-> 0]
    /\ UNCHANGED <<pc, files, disk, posts, searchIndex, written, stderr,
                   mdVars, bqVars, fnVars>>

Next ==
    \/ CompileFile
    \/ SortPosts
    \/ WriteSearchIndex
    \/ GeneratePage
    \/ WriteHome
    \/ Exit

Spec == Init /\ [][Next]_vars

\* a run over a directory that may hold files without readable front matter
SpecAnyDisk == InitAnyDisk /\ [][Next]_vars

\* a run over a directory whose files may hold any keys in their front matter
SpecAnyKeys == InitAnyKeys /\ [][Next]_vars


-----------------------------------------------------------------------------
(* The related posts on their own: a corpus in date order, most recent     *)
(* first, and the post whose page is generated.                            *)

MaxCorpus == 5

RelatedTagLists ==
    {<<>>, <<"x", "y">>, <<"y", "z">>, <<"z">>, <<"z", "z">>}

\* post i of a corpus of n posts; two posts in a row share a date
CorpusPost(i, n, tags) ==
    [slug |-> "p" \o Digits[i], title |-> "Title " \o Digits[i],
     date |-> (n - i) \div 2, tags |-> tags]

Corpora ==
    UNION {{[i \in 1..n |-> CorpusPost(i, n, tagsOf[i])] :
               tagsOf \in [1..n -> RelatedTagLists]} : n \in 1..MaxCorpus}

InitRelated ==
    /\ fnArg \in {[kind |-> "corpus", posts |-> c, target |-> t] :
                     c \in Corpora, t \in 1..MaxCorpus}
    /\ fnArg.target <= Len(fnArg.posts)
    /\ fnOut = NoValue
    /\ BuildIdle
    /\ MdIdle
    /\ BqIdle

ComputeRelated ==
    /\ fnArg.kind = "corpus"
    /\ fnOut = NoValue
    /\ fnOut' = [kind  |-> "related",
                 value |-> related(fnArg.posts, fnArg.posts[fnArg.target])]
    /\ UNCHANGED <<fnArg, buildVars, mdVars, bqVars>>

NextRelated == ComputeRelated

SpecRelated == InitRelated /\ [][NextRelated]_vars

-----------------------------------------------------------------------------
(* The search snippet on its own: rendered HTML assembled from pieces, one *)
(* of them long enough to carry the text across the cut.                   *)

MaxPieces == 3

HtmlPieces ==
    {"<b>", "<a href=\"u\">", "text ", LongText, "<", ">"}

RECURSIVE HtmlOfLength(_)
HtmlOfLength(n) ==
    IF n = 0 THEN {""}
    ELSE {h \o piece : h \in HtmlOfLength(n - 1), piece \in HtmlPieces}

HtmlInputs == UNION {HtmlOfLength(n) : n \in 0..MaxPieces}

InitSnippet ==
    /\ fnArg \in {[kind |-> "html", value |-> h] : h \in HtmlInputs}
    /\ fnOut = NoValue
    /\ BuildIdle
    /\ MdIdle
    /\ BqIdle

MakeSnippet ==
    /\ fnArg.kind = "html"
    /\ fnOut = NoValue
    /\ fnOut' = [kind |-> "snippet", value |-> snippet(fnArg.value)]
    /\ UNCHANGED <<fnArg, buildVars, mdVars, bqVars>>

NextSnippet == MakeSnippet

SpecSnippet == InitSnippet /\ [][NextSnippet]_vars

-----------------------------------------------------------------------------
(* getReadingTime on its own: bodies of a known number of words *)

MaxWords == 402

BodyWords      == {"word"}
BodySeparators == {" ", "\n\t\n"}
BodyMargins    == {"", " \n"}

\* a body of n words
BodyOf(n, word, sep, lead, trail) ==
    IF n = 0 THEN lead \o trail
    ELSE lead \o Rep(word \o sep, n - 1) \o word \o trail

InitReadingTime ==
    /\ fnArg \in {[kind |-> "body", words |-> n, value |-> BodyOf(n, w, sep, lead, trail)] :
                     n \in 0..MaxWords, w \in BodyWords, sep \in BodySeparators,
                     lead \in BodyMargins, trail \in BodyMargins}
    /\ fnOut = NoValue
    /\ BuildIdle
    /\ MdIdle
    /\ BqIdle

EstimateReadingTime ==
    /\ fnArg.kind = "body"
    /\ fnOut = NoValue
    /\ fnOut' = [kind |-> "minutes", value |-> getReadingTime(fnArg.value)]
    /\ UNCHANGED <<fnArg, buildVars, mdVars, bqVars>>

NextReadingTime == EstimateReadingTime

SpecReadingTime == InitReadingTime /\ [][NextReadingTime]_vars

-----------------------------------------------------------------------------
(* renderer.heading on its own: called with a token object, as marked 13   *)
(* and later call it, with the positional arguments (text, level, raw) of  *)
(* the versions before, and with what is neither.                          *)

HeadingTexts ==
    {"Hello World!", "1. The Dark Ages: Callback Hell", "snake_case  &  more", "Go", ""}

HeadingLevels == 1..6

\* the raw of a heading: the source line of the token object, or the text
RawForms == {"source", "plain"}

RawOfForm(form, depth, text) ==
    IF form = "source" THEN Rep("#", depth) \o " " \o text \o "\n\n" ELSE text

\* objects with some of the properties text, depth, level and raw
HeadingObjects ==
    {[k \in {"kind"} \cup K |->
         CASE k = "kind"  -> "object"
           [] k = "text"  -> t
           [] k = "depth" -> d
           [] k = "level" -> l
           [] k = "raw"   -> RawOfForm(r, d, t)] :
        K \in SUBSET {"text", "depth", "level", "raw"},
        t \in HeadingTexts, d \in HeadingLevels, l \in {2, 5}, r \in RawForms}

HeadingCalls ==
    {<<o>> : o \in HeadingObjects}
      \cup {<<Str(t), Num(d), Str(t)>> : t \in HeadingTexts, d \in HeadingLevels}
      \cup {<<Str("Hello <em>World</em>!"), Num(d), Str("Hello World!")>> : d \in HeadingLevels}
      \cup {<<Str(t), Num(d)>> : t \in HeadingTexts, d \in HeadingLevels}
      \* levels handed over as texts: numerals at, below and above 3, and none
      \cup {<<Str("T"), Str(l)>> : l \in
               {"2", "3", "4", "", " ", " 3\n", "0", "-1", "+3", "3.0", "3.5", ".5", "5.",
                "1e0", "1e1", "30e-1", "0x3", "0X4", "0b11", "0b100", "0o3", "-0x1", "x",
                "Go", "3px", "Infinity", "-Infinity", "1e", ".", "-", "1.2.3",
                "3.0000000000000002", "3.0000000000000003", "2.9999999999999999",
                "3", " 2﻿", "." \o Rep("0", 999) \o "1e1001",
                "4" \o Rep("0", 1000) \o "e-1001", "1e99999999999", "1e-99999999999"}}
      \* levels handed over as arrays
      \cup {<<Str("T"), Array(e)>> : e \in {<<>>, <<Num(3)>>, <<Str("2")>>, <<Num(4)>>,
                                            <<Num(1), Num(2)>>, <<Null>>, <<Str("a")>>}}
      \cup {<<>>, <<Undefined, Num(2)>>, <<Null>>, <<Num(42)>>, <<Array(<<Str("a")>>)>>}

InitHeading ==
    /\ fnArg \in {[kind |-> "call", args |-> a] : a \in HeadingCalls}
    /\ fnOut = NoValue
    /\ BuildIdle
    /\ MdIdle
    /\ BqIdle

CallHeading ==
    /\ fnArg.kind = "call"
    /\ fnOut = NoValue
    /\ fnOut' = heading(fnArg.args)
    /\ UNCHANGED <<fnArg, buildVars, mdVars, bqVars>>

NextHeading == CallHeading

SpecHeading == InitHeading /\ [][NextHeading]_vars

-----------------------------------------------------------------------------
(* The two renderer functions, one call of either *)

InitInterceptors == InitHeading \/ InitBq

NextInterceptors == CallHeading \/ RenderBlockquote

SpecInterceptors == InitInterceptors /\ [][NextInterceptors]_vars

-----------------------------------------------------------------------------
(* processMarkdown on its own: documents of up to MaxBlocks blocks, with   *)
(* headings of every level.                                                *)

MaxBlocks == 3

MdTokens ==
    {Heading(d, "Hello World!") : d \in HeadingLevels}
      \cup {Heading(2, "Go"), Paragraph("Some <em>text</em>.")}

RECURSIVE TokensOfLength(_)
TokensOfLength(n) ==
    IF n = 0 THEN {<<>>}
    ELSE {Append(ts, t) : ts \in TokensOfLength(n - 1), t \in MdTokens}

InitMarkdown ==
    /\ fnArg \in {[kind |-> "markdown", tokens |-> ts] :
                     ts \in UNION {TokensOfLength(n) : n \in 0..MaxBlocks}}
    /\ fnOut = NoValue
    /\ BuildIdle
    /\ MdIdle
    /\ BqIdle

RenderMarkdown ==
    /\ fnArg.kind = "markdown"
    /\ fnOut = NoValue
    /\ LET rendered == processMarkdown(fnArg.tokens, tocs, markedRenderer)
       IN  /\ tocs' = rendered.tocs
           /\ markedRenderer' = rendered.renderer
           /\ fnOut' = [kind |-> "rendered", toc |-> rendered.toc,
                        htmlContent |-> rendered.htmlContent]
    /\ UNCHANGED <<fnArg, buildVars, bqVars>>

NextMarkdown == RenderMarkdown

SpecMarkdown == InitMarkdown /\ [][NextMarkdown]_vars

-----------------------------------------------------------------------------
(* The slugs on their own: a directory of two entries whose names are made *)
(* of up to MaxNameParts parts and an extension.                           *)

MaxNameParts == 2

NameParts == {"a", "b", ".", ".md"}

NameExtensions == {".md", ".txt"}

RECURSIVE StemsOfLength(_)
StemsOfLength(n) ==
    IF n = 0 THEN {""}
    ELSE {stem \o part : stem \in StemsOfLength(n - 1), part \in NameParts}

EntryNames ==
    {stem \o ext : stem \in UNION {StemsOfLength(n) : n \in 0..MaxNameParts},
                   ext \in NameExtensions}

InitSlug ==
    /\ fnArg \in {[kind |-> "directory", entries |-> <<a, b>>] :
                     a \in EntryNames, b \in EntryNames}
    /\ fnArg.entries[1] # fnArg.entries[2]
    /\ fnOut = NoValue
    /\ BuildIdle
    /\ MdIdle
    /\ BqIdle

\* the files of the directory and the slug of each
ComputeSlugs ==
    /\ fnArg.kind = "directory"
    /\ fnOut = NoValue
    /\ LET listed == mdFiles(fnArg.entries)
       IN  fnOut' = [kind  |-> "slugs",
                     files |-> listed,
                     slugs |-> [i \in 1..Len(listed) |-> slugOf(listed[i])]]
    /\ UNCHANGED <<fnArg, buildVars, mdVars, bqVars>>

NextSlug == ComputeSlugs

SpecSlug == InitSlug /\ [][NextSlug]_vars

-----------------------------------------------------------------------------
(* Claims about the search snippet *)

\* Position i of s lies behind the "<" that opens a tag and not behind the
\* ">" that closes it.
InTag(s, i) ==
    LET Before == {q \in 1..(i - 1) : Ch(s, q) = ">"}
        q0     == IF Before = {} THEN 0 ELSE CHOOSE a \in Before : \A b \in Before : a >= b
    IN  \E t \in (q0 + 1)..(i - 1) : Ch(s, t) = "<"

\* s with every tag (a "<", what follows it up to the next ">", and that ">";
\* up to the end of s when no ">" follows) replaced by the text gap
RECURSIVE TagsReplaced(_, _, _, _)
TagsReplaced(s, gap, lo, hi) ==
    IF lo > hi THEN ""
    ELSE IF lo = hi
         THEN IF InTag(s, lo) THEN ""
              ELSE IF Ch(s, lo) = "<" THEN gap ELSE Ch(s, lo)
    ELSE LET mid == (lo + hi) \div 2
         IN  TagsReplaced(s, gap, lo, mid) \o TagsReplaced(s, gap, mid + 1, hi)

snippetMade == fnOut.kind = "snippet"

\* C7 as stated: the snippet is the rendered HTML with every tag removed and
\* nothing put in its place, cut to its first 300 characters.
C7_TagsRemovedNothingInserted ==
    snippetMade =>
        fnOut.value = substring0(TagsReplaced(fnArg.value, "", 1, Len(fnArg.value)), 300)

\* C7 amended: the snippet is the rendered HTML with every tag replaced by
\* one space and no text from inside a tag kept, cut to its first 300
\* characters, the cut being applied after the replacement.
C7_TagsReplacedBySpace ==
    snippetMade =>
        fnOut.value = substring0(TagsReplaced(fnArg.value, " ", 1, Len(fnArg.value)), 300)

\* a snippet was made of HTML that has a tag, text inside the tag and more
\* than 300 characters left after the replacement
C7_Witness ==
    /\ snippetMade
    /\ Includes(fnArg.value, "<a href=\"u\">")
    /\ Len(TagsReplaced(fnArg.value, " ", 1, Len(fnArg.value))) > 300
    /\ ~Includes(fnOut.value, "href")

\* C8: the snippet has at most 300 characters; of a stripped text longer
\* than 300 it is exactly the first 300 characters, and a stripped text of
\* 300 characters or fewer is the snippet as a whole.
C8_SnippetLength ==
    snippetMade =>
        LET stripped == TagsReplaced(fnArg.value, " ", 1, Len(fnArg.value))
        IN  /\ Len(fnOut.value) <= 300
            /\ Len(stripped) > 300 =>
                  /\ Len(fnOut.value) = 300
                  /\ fnOut.value = SubSeq(stripped, 1, 300)
            /\ Len(stripped) <= 300 => fnOut.value = stripped

\* a snippet of 300 characters was cut in the middle of a word
C8_Witness ==
    /\ snippetMade
    /\ Len(stripTags(fnArg.value)) > 300
    /\ Len(fnOut.value) = 300
    /\ ~IsSpace(Ch(stripTags(fnArg.value), 300))
    /\ ~IsSpace(Ch(stripTags(fnArg.value), 301))

-----------------------------------------------------------------------------
(* Claims about getReadingTime *)

\* the least integer m with m * 200 >= w
CeilOf200th(w) == CHOOSE m \in 0..w : m * 200 >= w /\ (m - 1) * 200 < w

timeEstimated == fnOut.kind = "minutes"

\* C10: a body of w words has a reading time of max(1, ceil(w / 200))
\* minutes: at least 1, 1 for no words and for 200, 2 for 201, 3 for 401.
C10_ReadingTime ==
    timeEstimated =>
        /\ fnOut.value >= 1
        /\ fnOut.value = (IF CeilOf200th(fnArg.words) > 1
                          THEN CeilOf200th(fnArg.words) ELSE 1)
        /\ fnArg.words = 0 => fnOut.value = 1
        /\ fnArg.words = 200 => fnOut.value = 1
        /\ fnArg.words = 201 => fnOut.value = 2
        /\ fnArg.words = 401 => fnOut.value = 3

\* the reading time of a body of 401 words was estimated as 3
C10_Witness ==
    /\ timeEstimated
    /\ fnArg.words = 401
    /\ fnOut.value = 3

-----------------------------------------------------------------------------
(* Claims about the related posts *)

relatedComputed == fnOut.kind = "related"

corpusOf == fnArg.posts

targetOf == fnArg.posts[fnArg.target]

\* the tags of a post as a set
TagSet(p) == {p.tags[i] : i \in 1..Len(p.tags)}

\* the posts of the corpus other than the target, by position
Others == {i \in 1..Len(corpusOf) : i # fnArg.target}

\* the position in the corpus of a post of the result
PositionOf(p) == CHOOSE i \in 1..Len(corpusOf) : corpusOf[i].slug = p.slug

\* the positions the result is made of
Included == {PositionOf(fnOut.value[i]) : i \in 1..Len(fnOut.value)}

\* C3: the match count the ranking uses for another post O is the number of
\* tags the target and O share, so a tag O lists twice counts once, and the
\* count is the same from either side when neither list has duplicates.
C3_MatchCountIsIntersection ==
    relatedComputed =>
        \A i \in Others :
            matches(corpusOf[i], targetOf)
                = Cardinality(TagSet(targetOf) \cap TagSet(corpusOf[i]))

\* the number of other posts that share a tag with the target
SharingCount ==
    Cardinality({i \in Others : TagSet(corpusOf[i]) \cap TagSet(targetOf) # {}})

\* C4: the related list of a post has exactly min(3, k) entries, k being the
\* number of other posts sharing a tag with it; every entry is another post
\* with a match count above 0; with k = 0 the list is empty.
C4_RelatedCount ==
    relatedComputed =>
        /\ Len(fnOut.value) = (IF SharingCount < 3 THEN SharingCount ELSE 3)
        /\ \A i \in 1..Len(fnOut.value) :
              /\ \E j \in Others : corpusOf[j] = fnOut.value[i]
              /\ fnOut.value[i].slug # targetOf.slug
              /\ matches(fnOut.value[i], targetOf) > 0
              /\ TagSet(fnOut.value[i]) \cap TagSet(targetOf) # {}
        /\ \A i, j \in 1..Len(fnOut.value) :
              i # j => fnOut.value[i].slug # fnOut.value[j].slug
        /\ SharingCount = 0 => fnOut.value = <<>>

\* the related list of a post that shares tags with four others has three entries
C4_Witness ==
    /\ relatedComputed
    /\ SharingCount >= 4
    /\ Len(fnOut.value) = 3

\* the corpus A{x,y}, B{y,z}, C{z} of the specification, A most recent
IsExampleCorpus ==
    /\ Len(corpusOf) = 3
    /\ corpusOf[1].tags = <<"x", "y">>
    /\ corpusOf[2].tags = <<"y", "z">>
    /\ corpusOf[3].tags = <<"z">>

\* C5: the related list is in descending order of match count, entries of
\* equal count keep the order of the date-sorted corpus, and no post left
\* out has a higher count than a post kept; for A{x,y}, B{y,z}, C{z} the
\* list of A is [B] and the list of B is [A, C].
C5_RelatedOrder ==
    relatedComputed =>
        /\ \A i, j \in 1..Len(fnOut.value) :
              i < j =>
                 /\ matches(fnOut.value[i], targetOf) >= matches(fnOut.value[j], targetOf)
                 /\ matches(fnOut.value[i], targetOf) = matches(fnOut.value[j], targetOf)
                       => PositionOf(fnOut.value[i]) < PositionOf(fnOut.value[j])
        /\ \A o \in Others \ Included : \A e \in Included :
              matches(corpusOf[o], targetOf) <= matches(corpusOf[e], targetOf)
        /\ (IsExampleCorpus /\ fnArg.target = 1) => fnOut.value = <<corpusOf[2]>>
        /\ (IsExampleCorpus /\ fnArg.target = 2) => fnOut.value = <<corpusOf[1], corpusOf[3]>>

\* the related list of B in the corpus A{x,y}, B{y,z}, C{z} is [A, C]
C5_Witness ==
    /\ relatedComputed
    /\ IsExampleCorpus
    /\ fnArg.target = 2
    /\ fnOut.value = <<corpusOf[1], corpusOf[3]>>

-----------------------------------------------------------------------------
(* Claims about one run of build() *)

\* C6: when the search index is built and when the related list of a post
\* is computed, the posts are in descending order of date.
C6_CorpusSortedByDate ==
    pc \in {"index", "pages"} =>
        \A i \in 1..(Len(posts) - 1) : posts[i].date >= posts[i + 1].date

\* the related lists are being computed on a corpus the sort has reordered
C6_Witness ==
    /\ pc = "pages"
    /\ Len(posts) >= 3
    /\ posts[1].slug # slugOf(files[1])
    /\ posts[1].date > posts[Len(posts)].date

SearchRecordKeys == {"title", "slug", "description", "tags", "content"}

\* C9: search.json holds one record per compiled post, in the order of the
\* date-sorted corpus, each with exactly the fields title, slug,
\* description, tags and content, the first four the post's own and content
\* its snippet.
C9_SearchIndexShape ==
    pc = "done" =>
        /\ written[1].path = "search.json"
        /\ Len(written[1].content) = Len(files)
        /\ Len(written[1].content) = Len(posts)
        /\ \A i \in 1..Len(posts) :
              LET record == written[1].content[i]
              IN  /\ DOMAIN record = SearchRecordKeys
                  /\ record.title = posts[i].title
                  /\ record.slug = posts[i].slug
                  /\ record.description = posts[i].description
                  /\ record.tags = posts[i].tags
                  /\ record.content = substring0(stripTags(posts[i].htmlContent), 300)

\* search.json was written for a corpus that the sort has reordered and
\* that has a post whose snippet was cut
C9_Witness ==
    /\ pc = "done"
    /\ Len(posts) >= 3
    /\ posts[1].slug # slugOf(files[1])
    /\ \E i \in 1..Len(posts) :
          /\ Len(posts[i].htmlContent) > 300
          /\ Len(written[1].content[i].content) = 300

-----------------------------------------------------------------------------
(* Claims about renderer.heading *)

UpperLetters == "ABCDEFGHIJKLMNOPQRSTUVWXYZ"

LowerLetters == "abcdefghijklmnopqrstuvwxyz"

DigitsAndUnderscore == "0123456789_"

\* the character c lowercased
Lowered(c) ==
    IF \E i \in 1..26 : Ch(UpperLetters, i) = c
    THEN Ch(LowerLetters, CHOOSE i \in 1..26 : Ch(UpperLetters, i) = c)
    ELSE c

\* c is a character of [A-Za-z0-9_]
InAnchorClass(c) ==
    \E i \in 1..63 : Ch(UpperLetters \o LowerLetters \o DigitsAndUnderscore, i) = c

\* The characters lo..hi of s, lowercased, with every maximal run of
\* characters outside [A-Za-z0-9_] replaced by one "-": a character of the
\* class stands for itself, the first character of a run for "-", and the
\* other characters of a run for nothing.
RECURSIVE AnchorOf(_, _, _)
AnchorOf(s, lo, hi) ==
    IF lo > hi THEN ""
    ELSE IF lo = hi
         THEN IF InAnchorClass(Ch(s, lo)) THEN Lowered(Ch(s, lo))
              ELSE IF lo = 1 \/ InAnchorClass(Ch(s, lo - 1)) THEN "-" ELSE ""
    ELSE LET mid == (lo + hi) \div 2
         IN  AnchorOf(s, lo, mid) \o AnchorOf(s, mid + 1, hi)

headingReturned == fnOut.kind = "returned"

\* the call hands a text to the heading renderer: the text property of the
\* object, or the first positional argument
CallHasText ==
    /\ fnArg.kind = "call"
    /\ Len(fnArg.args) >= 1
    /\ \/ fnArg.args[1].kind = "object" /\ "text" \in DOMAIN fnArg.args[1]
       \/ fnArg.args[1].kind = "string"

CallText ==
    IF fnArg.args[1].kind = "object" THEN fnArg.args[1].text ELSE fnArg.args[1].value

\* the raw source the call hands over, "" when it hands over none
CallRaw ==
    IF fnArg.args[1].kind = "object"
    THEN (IF "raw" \in DOMAIN fnArg.args[1] THEN fnArg.args[1].raw ELSE "")
    ELSE (IF Len(fnArg.args) >= 3 THEN fnArg.args[3].value ELSE "")

\* the value of the id attribute of the element: what stands between the
\* first id=" and the "> that follows it
IdOf(html) ==
    LET a == Min({i \in 1..Len(html) : OccursAt(html, " id=\"", i)}) + 5
        b == Min({i \in a..Len(html) : OccursAt(html, "\">", i)})
    IN  SubSeq(html, a, b - 1)

AnchorShape(anchor) ==
    /\ \A i \in 1..Len(anchor) :
          \E j \in 1..38 : Ch(LowerLetters \o DigitsAndUnderscore \o "-", j) = Ch(anchor, i)
    /\ ~Includes(anchor, "--")

\* C11 as stated: for every heading with text T the anchor is T lowercased
\* with every maximal run of characters outside [A-Za-z0-9_] replaced by one
\* "-", nothing trimmed; it has only characters of [a-z0-9_-] and no two
\* adjacent hyphens; the anchor of "Hello World!" is "hello-world-".
C11_AnchorFromText ==
    (headingReturned /\ CallHasText) =>
        /\ IdOf(fnOut.html) = AnchorOf(CallText, 1, Len(CallText))
        /\ AnchorShape(IdOf(fnOut.html))
        /\ CallText = "Hello World!" => IdOf(fnOut.html) = "hello-world-"

\* C11 amended: the anchor is made in that way of the raw source of the
\* heading when one is given and is not empty, and of the text T otherwise;
\* it has only characters of [a-z0-9_-] and no two adjacent hyphens; made of
\* "Hello World!" it is "hello-world-".
C11_AnchorFromRawOrText ==
    (headingReturned /\ CallHasText) =>
        LET basis == IF CallRaw # "" THEN CallRaw ELSE CallText
        IN  /\ IdOf(fnOut.html) = AnchorOf(basis, 1, Len(basis))
            /\ AnchorShape(IdOf(fnOut.html))
            /\ basis = "Hello World!" => IdOf(fnOut.html) = "hello-world-"

\* the anchor of a heading handed over with its raw source, the line of
\* the document, was made of that source and not of its text: runs of two
\* characters outside the class are among them, and the anchor begins and
\* ends with the hyphen the text does not give
C11_Witness ==
    /\ headingReturned
    /\ CallHasText
    /\ CallText = "1. The Dark Ages: Callback Hell"
    /\ CallRaw = "## 1. The Dark Ages: Callback Hell\n\n"
    /\ IdOf(fnOut.html) = "-1-the-dark-ages-callback-hell-"
    /\ IdOf(fnOut.html) # AnchorOf(CallText, 1, Len(CallText))

\* the heading renderer was called with neither a heading object nor the
\* positional arguments: its first argument is no object and no text
HeadingShapeUnknown ==
    /\ fnArg.kind = "call"
    /\ argument(fnArg.args, 1).kind \notin {"object", "string"}

\* the blockquote renderer was called with neither a string nor an object
\* that carries the inner HTML as its text
BlockquoteShapeUnknown ==
    /\ bqArg # NoValue
    /\ bqArg.kind # "string"
    /\ ~(bqArg.kind = "object" /\ "text" \in DOMAIN bqArg)

\* C18: a renderer function called with a shape it cannot interpret throws
\* and emits nothing, the heading renderer as well as the blockquote
\* renderer.
C18_UnknownShapeThrows ==
    /\ (HeadingShapeUnknown /\ fnOut # NoValue) => fnOut.kind = "threw"
    /\ (BlockquoteShapeUnknown /\ bqOut # NoValue) => bqOut.kind = "threw"

-----------------------------------------------------------------------------
(* Claims about the table of contents of a document *)

IsHeading(token) == token.type = "heading"

IsTocHeading(token) == token.type = "heading" /\ token.depth \in {1, 2, 3}

\* the element a heading of level L and text T is to be emitted as
HeadingElement(token) ==
    LET hL == "h" \o Digits[token.depth]
    IN  "<" \o hL \o " id=\"" \o AnchorOf(token.raw, 1, Len(token.raw)) \o "\">"
            \o token.text \o "</" \o hL \o ">"

\* the HTML of a document whose headings are emitted as HeadingElement
RECURSIVE HtmlWithHeadings(_)
HtmlWithHeadings(tokens) ==
    IF tokens = <<>> THEN ""
    ELSE (CASE IsHeading(Head(tokens))           -> HeadingElement(Head(tokens))
            [] Head(tokens).type = "paragraph"   -> "<p>" \o Head(tokens).text \o "</p>\n"
            [] OTHER                             -> Head(tokens).text)
           \o HtmlWithHeadings(Tail(tokens))

\* The array toc is the table of contents of the document tokens: one
\* entry for each heading of level 1, 2 or 3, in document order, with the
\* heading's text, level and anchor, and nothing else.
IsTocOf(toc, tokens) ==
    LET kept == SelectSeq(tokens, IsTocHeading)
    IN  /\ Len(toc) = Len(kept)
        /\ \A i \in 1..Len(toc) :
              /\ toc[i].text = Str(kept[i].text)
              /\ toc[i].level = Num(kept[i].depth)
              /\ toc[i].anchor = AnchorOf(kept[i].raw, 1, Len(kept[i].raw))

markdownRendered == fnOut.kind = "rendered"

\* C12: the table of contents of a document has exactly the headings of
\* level 1, 2 or 3, one entry each, in document order, and none of level 4,
\* 5 or 6; the headings of every level are in the HTML as <hL id="anchor">T</hL>.
C12_TocLevelFilter ==
    markdownRendered =>
        /\ IsTocOf(tocs[fnOut.toc], fnArg.tokens)
        /\ \A i \in 1..Len(tocs[fnOut.toc]) : tocs[fnOut.toc][i].level \in {Num(1), Num(2), Num(3)}
        /\ fnOut.htmlContent = HtmlWithHeadings(fnArg.tokens)

\* a document with a heading of level 4 between headings of levels 3 and 1
\* was rendered: two entries, all three elements
C12_Witness ==
    /\ markdownRendered
    /\ Len(fnArg.tokens) = 3
    /\ fnArg.tokens[1].type = "heading" /\ fnArg.tokens[1].depth = 3
    /\ fnArg.tokens[2].type = "heading" /\ fnArg.tokens[2].depth = 4
    /\ fnArg.tokens[3].type = "heading" /\ fnArg.tokens[3].depth = 1
    /\ Len(tocs[fnOut.toc]) = 2
    /\ Includes(fnOut.htmlContent, "<h4 id=\"-hello-world-\">Hello World!</h4>")

-----------------------------------------------------------------------------
(* Claims about the order of the steps of build() *)

\* a post with every field the compilation of a document computes
IsCompiledPost(p) == ComputedKeys \subseteq DOMAIN p

\* every file has been compiled into a post
AllCompiled ==
    /\ Len(posts) = Len(files)
    /\ \A i \in 1..Len(files) :
          \E j \in 1..Len(posts) :
              posts[j].slug = slugOf(files[i]) /\ IsCompiledPost(posts[j])

IsSortedByDate(ps) == \A i \in 1..(Len(ps) - 1) : ps[i].date >= ps[i + 1].date

\* C17: a step that compiles a document appends the finished post of the
\* next file to the finished posts of the files before it, and a step that
\* builds the search index or ranks the related posts of a page is taken
\* only when every file has been compiled and the posts have been sorted.
C17_CompileThenBarrier ==
    [][/\ Len(posts') > Len(posts) =>
             /\ posts' = Append(posts, posts'[Len(posts')])
             /\ posts'[Len(posts')].slug = slugOf(files[Len(posts')])
             /\ IsCompiledPost(posts'[Len(posts')])
             /\ \A j \in 1..Len(posts) : posts[j].slug = slugOf(files[j])
             /\ searchIndex = <<>>
             /\ written = <<>>
       /\ (searchIndex' # searchIndex \/ written' # written) =>
             /\ AllCompiled
             /\ IsSortedByDate(posts)
             /\ posts' = posts]_vars

\* the search index of three or more posts is built and related posts have
\* been ranked for a page, on posts the sort has reordered
C17_Witness ==
    /\ Len(files) >= 3
    /\ Len(searchIndex) = Len(files)
    /\ Len(written) >= 2
    /\ written[2].slug # slugOf(files[1])
    /\ AllCompiled

\* the place in the directory of the file a post was made of
FileOfPost(p) == CHOOSE i \in 1..Len(files) : slugOf(files[i]) = p.slug

\* C19: at every moment of a run the table of contents of each post is the
\* one of its own body: it has the entries of the headings of that body and
\* no others, whatever documents were rendered before or after it.
C19_TocOfOwnBody ==
    \A j \in 1..Len(posts) :
        IsTocOf(tocs[posts[j].toc], disk[FileOfPost(posts[j])].body.tokens)

\* three documents were compiled one after the other: two with entries
\* of their own, then one without an entry
C19_Witness ==
    /\ pc = "compile"
    /\ Len(posts) >= 3
    /\ Len(tocs[posts[1].toc]) = 1
    /\ Len(tocs[posts[2].toc]) = 2
    /\ tocs[posts[1].toc] # tocs[posts[2].toc]
    /\ tocs[posts[3].toc] = <<>>

-----------------------------------------------------------------------------
(* Claims about the table of contents of a post and the HTML of the post *)

\* the first place at or behind i where the text t occurs in s, 0 if none
NextAt(s, t, i) ==
    LET Os == {j \in i..Len(s) : OccursAt(s, t, j)}
    IN  IF Os = {} THEN 0 ELSE Min(Os)

\* The heading element that opens at place i of html, read as a browser
\* reads it: <hL id="A">, the content up to the closing </hL>.  The end is
\* 0 when no heading element opens there.
ElementAt(html, i) ==
    LET hL     == SubSeq(html, i + 1, i + 2)
        idAt   == i + 8
        quote  == NextAt(html, "\"", idAt)
        close  == IF quote = 0 THEN 0 ELSE NextAt(html, "</" \o hL \o ">", quote + 2)
    IN  IF /\ OccursAt(html, " id=\"", i + 3)
           /\ quote # 0
           /\ OccursAt(html, "\">", quote)
           /\ close # 0
        THEN [end     |-> close + 5,
              level   |-> Ch(html, i + 2),
              id      |-> SubSeq(html, idAt, quote - 1),
              content |-> SubSeq(html, quote + 2, close - 1)]
        ELSE [end |-> 0]

\* the heading elements of html from place i on, in the order of the HTML
RECURSIVE HeadingElementsFrom(_, _)
HeadingElementsFrom(html, i) ==
    LET open == NextAt(html, "<h", i)
    IN  IF open = 0 THEN <<>>
        ELSE LET el == ElementAt(html, open)
             IN  IF el.end = 0 THEN HeadingElementsFrom(html, open + 1)
                 ELSE <<[level |-> el.level, id |-> el.id, content |-> el.content]>>
                          \o HeadingElementsFrom(html, el.end)

\* the heading an entry of a table of contents refers to
Referent(entry) ==
    [level |-> toStr(entry.level), id |-> entry.anchor, content |-> toStr(entry.text)]

\* the sequence as can be had from bs by leaving elements out
RECURSIVE IsSubsequence(_, _)
IsSubsequence(as, bs) ==
    IF as = <<>> THEN TRUE
    ELSE IF bs = <<>> THEN FALSE
    ELSE IF Head(as) = Head(bs) THEN IsSubsequence(Tail(as), Tail(bs))
    ELSE IsSubsequence(as, Tail(bs))

\* C21: every entry of the table of contents of a post refers to a heading
\* element of the HTML of the same post, of the entry's level, with the
\* entry's anchor as its id and the entry's text as its content, and the
\* entries are in the order of those elements; the page of the post is made
\* with these entries.
C21_TocEntriesAreHeadings ==
    /\ \A j \in 1..Len(posts) :
          LET toc      == tocs[posts[j].toc]
              elements == HeadingElementsFrom(posts[j].htmlContent, 1)
          IN  /\ \A k \in 1..Len(toc) :
                    \E e \in 1..Len(elements) : elements[e] = Referent(toc[k])
              /\ IsSubsequence([k \in 1..Len(toc) |-> Referent(toc[k])], elements)
    /\ \A k \in 2..Len(written) :
          written[k].path # "index.html" => written[k].toc = tocs[posts[k - 1].toc]

\* the page of a post was written whose HTML has three heading elements,
\* the second of level 4: its table of contents has the first and the third
C21_Witness ==
    \E k \in 2..Len(written) :
        /\ written[k].path # "index.html"
        /\ Len(written[k].toc) = 2
        /\ written[k].toc[1].level = Num(2)
        /\ written[k].toc[2].level = Num(3)
        /\ Len(HeadingElementsFrom(posts[k - 1].htmlContent, 1)) = 3
        /\ HeadingElementsFrom(posts[k - 1].htmlContent, 1)[2].level = "4"

-----------------------------------------------------------------------------
(* Claims about the fields of a post and the front matter of its file *)

\* The post p has the fields the claim gives the post of the file at place
\* i: the slug of the file's name, the reading time, the table of contents
\* and the HTML of the file's body, tags that are a list, the empty one when
\* the front matter has none, and the heroImage given or null.
HasComputedFieldsOf(p, i) ==
    LET data == disk[i].data
        body == disk[i].body
    IN  /\ p.slug = SubSeq(files[i], 1, Len(files[i]) - 3)
        /\ p.readingTime = getReadingTime(body.content)
        /\ p.toc = i
        /\ IsTocOf(tocs[p.toc], body.tokens)
        /\ p.htmlContent = HtmlWithHeadings(body.tokens)
        /\ p.tags.kind = "array"
        /\ "tags" \notin DOMAIN data => p.tags = Array(<<>>)
        /\ IF "heroImage" \in DOMAIN data
           THEN p.heroImage \in {data.heroImage, "null"}
           ELSE p.heroImage = "null"

\* C22: whatever keys the front matter of a file holds, keys named slug,
\* readingTime, toc and htmlContent among them, the post of the file has
\* the slug of the file's name, the readingTime, toc and htmlContent
\* computed from the body, tags that are always a list (empty when the front
\* matter has none) and as its heroImage the given value or null.
C22_ComputedFieldsWin ==
    \A j \in 1..Len(posts) :
        \E i \in 1..Len(files) :
            /\ disk[i].data.title = posts[j].title
            /\ HasComputedFieldsOf(posts[j], i)

-----------------------------------------------------------------------------
(* Claims about a run of build() over files that may fail to compile *)

\* the files whose header of front matter is absent or is no YAML
Headerless == {i \in 1..Len(files) : disk[i].header # "valid"}

\* the files whose compilation throws
Failing == {i \in 1..Len(files) : matter(disk[i]).kind = "threw"}

\* C14: a file whose metadata header is absent or malformed is a hard
\* failure: no post is made of it and the run is aborted, so it never gets
\* to the sort, the search index or the pages.
C14_MissingHeaderIsFatal ==
    \A i \in Headerless :
        /\ \A j \in 1..Len(posts) : posts[j].slug # slugOf(files[i])
        /\ pc \in {"compile", "failed"}
        /\ Len(posts) < i

\* C15: when the compilation of a file fails the run stops at that file,
\* the files behind it are not processed, the cause is logged, and the
\* process ends with a status other than 0.
C15_FailureStopsRun ==
    /\ Failing # {} => pc \in {"compile", "failed"}
    /\ pc = "failed" =>
          /\ Failing # {}
          /\ Len(posts) = Min(Failing) - 1
          /\ Len(tocs) = Len(posts)
          /\ stderr = <<matter(disk[Min(Failing)]).error>>
          /\ exit.kind = "exit" => exit.code # 0

-----------------------------------------------------------------------------
(* Claims about the slugs *)

slugsComputed == fnOut.kind = "slugs"

\* C16: the slug of a post is its file name without the trailing .md, and
\* nothing else removed, so the files of a directory, whose names differ,
\* have slugs that differ.
C16_SlugIsNameWithoutExtension ==
    slugsComputed =>
        /\ \A i \in 1..Len(fnOut.files) :
              /\ fnOut.slugs[i] \o ".md" = fnOut.files[i]
              /\ fnOut.slugs[i] = SubSeq(fnOut.files[i], 1, Len(fnOut.files[i]) - 3)
        /\ \A i, j \in 1..Len(fnOut.files) :
              fnOut.files[i] # fnOut.files[j] => fnOut.slugs[i] # fnOut.slugs[j]

\* C20: when a document fails to compile nothing has been written in the
\* run; search.json, the pages and index.html are written only after every
\* document has compiled, and index.html after search.json and every page.
C20_WritesAfterCompilation ==
    /\ pc = "failed" => written = <<>>
    /\ Failing # {} => written = <<>>
    /\ written # <<>> => AllCompiled
    /\ \A k \in 1..Len(written) :
          written[k].path = "index.html" =>
              /\ k = Len(posts) + 2
              /\ written[1].path = "search.json"
              /\ \A j \in 1..Len(posts) :
                    written[j + 1].path = "posts/" \o posts[j].slug \o ".html"

\* the third document failed after two had compiled, and the run ended
\* with nothing written
C20_Witness ==
    /\ pc = "failed"
    /\ exit.kind = "exit"
    /\ Len(posts) = 2
    /\ Len(files) = 3
    /\ written = <<>>

====
